---- MODULE Spec2Model ----
(***************************************************************************)
(* Model of src/app.py: the feedback ledger kept in feedback.csv           *)
(* (save_feedback, get_user_vote, the thumb buttons and the "recent votes" *)
(* view), the free-text user resolver (extract_user_from_text) and the     *)
(* recommendation rendering loop of main().                                *)
(*                                                                         *)
(* Five specifications share the variables:                                *)
(*   Spec         one ledger operation at a time (the single-writer model) *)
(*   SpecHistory  the same, from the store of a user who voted before      *)
(*   SpecConc     two save_feedback calls whose read and write interleave  *)
(*   SpecResolve  extract_user_from_text on bounded texts and catalogs     *)
(*   SpecRender   the per-product loop of main() on bounded score lists    *)
(***************************************************************************)
EXTENDS Integers, Sequences, FiniteSets, TLC

VARIABLES feedback_csv, last, procs, query, answer, render

vars == <<feedback_csv, last, procs, query, answer, render>>

(***************************************************************************)
(* Bounds                                                                  *)
(***************************************************************************)
\* most rows feedback.csv may hold for the pairs the ledger operations act
\* on (the file itself is unbounded)
MaxRows == 3
\* most rows of the store the two concurrent calls of SpecConc start from
MaxConcRows == 2
\* longest text typed into the query box, in characters
MaxText == 4
\* most user ids in the catalog handed to the resolver
MaxCatalog == 4
\* longest list in a field of a recommendation row
MaxRecs == 3

(***************************************************************************)
(* Python values and CSV text.                                             *)
(* An identifier is a Python value: an int or a str.  to_csv writes str(v) *)
(* for either, so the int 1 and the str "1" are the same cell text.        *)
(* read_csv infers one dtype per column: int64 when every cell of the      *)
(* column parses as an integer, object (str) otherwise.  pandas' == on     *)
(* values of different types is False, never an error.                     *)
(***************************************************************************)
PyInt(s) == [ty |-> "int", s |-> s]
PyStr(s) == [ty |-> "str", s |-> s]

\* cell texts that parse as an integer
DigitTexts == {"1", "2", "3", "4", "5"}

\* user ids of the model: MUDID values such as 'ai730048' (src/app.py:31)
Users == {PyStr("a"), PyStr("b")}

\* product ids of the model: what ast.literal_eval yields for the elements
\* of Recommended_Product: ints (src/app.py:32), numeric-looking strings
\* (compare Visited_Studies, src/app.py:36) and other strings
Products == {PyInt("1"), PyStr("1"), PyStr("x")}

Votes == {1, -1, 0}

\* feedback.csv before it is ever written
Absent == [exists |-> FALSE, rows |-> <<>>]

\* DataFrame.to_csv('feedback.csv', index=False): every value as its text
to_csv(df) ==
    [exists |-> TRUE,
     rows   |-> [i \in 1..Len(df) |->
                   [MUDID      |-> df[i].MUDID.s,
                    Product_ID |-> df[i].Product_ID.s,
                    Feedback   |-> df[i].Feedback]]]

\* dtype inference of read_csv for the column of the given cells
ColumnIsInt(cells) == cells # {} /\ cells \subseteq DigitTexts

ParseCell(isInt, s) == IF isInt THEN PyInt(s) ELSE PyStr(s)

\* pd.read_csv('feedback.csv') on an existing file: the typed table
read_csv(file) ==
    LET rows == file.rows
        n    == Len(rows)
        uInt == ColumnIsInt({rows[i].MUDID : i \in 1..n})
        pInt == ColumnIsInt({rows[i].Product_ID : i \in 1..n})
    IN  [i \in 1..n |->
           [MUDID      |-> ParseCell(uInt, rows[i].MUDID),
            Product_ID |-> ParseCell(pInt, rows[i].Product_ID),
            Feedback   |-> rows[i].Feedback]]

\* Mask with the MUDID comparison forgotten
Mask_product_only(df, user_id, product_id) ==
    {i \in 1..Len(df) : df[i].Product_ID = product_id}

\* (feedback_df['MUDID'] == user_id) & (feedback_df['Product_ID'] == product_id)
Mask(df, user_id, product_id) ==
    {i \in 1..Len(df) : df[i].MUDID = user_id /\ df[i].Product_ID = product_id}

RECURSIVE Keep(_, _, _)
\* the rows of df at the positions in idx, in df's order, starting at i
Keep(df, idx, i) ==
    IF i > Len(df) THEN <<>>
    ELSE IF i \in idx THEN <<df[i]>> \o Keep(df, idx, i + 1)
         ELSE Keep(df, idx, i + 1)

\* feedback_df[~mask]
DropMasked(df, mask) == Keep(df, (1..Len(df)) \ mask, 1)

\* UpdateMasked done as delete-then-append: the updated rows move to the end
UpdateMasked_reappend(df, mask, feedback) ==
    DropMasked(df, mask) \o
    [i \in 1..Cardinality(mask) |->
        [Keep(df, mask, 1)[i] EXCEPT !.Feedback = feedback]]

\* feedback_df.loc[mask, 'Feedback'] = feedback
UpdateMasked(df, mask, feedback) ==
    [i \in 1..Len(df) |->
        IF i \in mask THEN [df[i] EXCEPT !.Feedback = feedback] ELSE df[i]]

feedback_entry(user_id, product_id, feedback) ==
    [MUDID |-> user_id, Product_ID |-> product_id, Feedback |-> feedback]

\* pd.concat([feedback_df, pd.DataFrame([feedback_entry])], ignore_index=True)
Concat(df, entry) == Append(df, entry)

\* NewTable without the feedback == 0 tests: a cleared vote is stored as 0
NewTable_stores_zero(file, user_id, product_id, feedback) ==
    IF file.exists
    THEN LET df   == read_csv(file)
             mask == Mask(df, user_id, product_id)
         IN  IF mask # {}
             THEN UpdateMasked(df, mask, feedback)
             ELSE Concat(df, feedback_entry(user_id, product_id, feedback))
    ELSE <<feedback_entry(user_id, product_id, feedback)>>

\* the table save_feedback builds from the file it read (src/app.py:57-82)
NewTable(file, user_id, product_id, feedback) ==
    IF file.exists
    THEN LET df   == read_csv(file)
             mask == Mask(df, user_id, product_id)
         IN  IF mask # {}
             THEN IF feedback = 0
                  THEN DropMasked(df, mask)
                  ELSE UpdateMasked(df, mask, feedback)
             ELSE IF feedback # 0
                  THEN Concat(df, feedback_entry(user_id, product_id, feedback))
                  ELSE df
    ELSE IF feedback # 0
         THEN <<feedback_entry(user_id, product_id, feedback)>>
         ELSE <<>>

\* save_feedback: the file after the call, given the file it read
save_feedback(file, user_id, product_id, feedback) ==
    to_csv(NewTable(file, user_id, product_id, feedback))

Min(S) == CHOOSE x \in S : \A y \in S : x <= y

\* get_user_vote: .iloc[0] of the matching rows, 0 when none or no file
get_user_vote(file, user_id, product_id) ==
    IF file.exists
    THEN LET df   == read_csv(file)
             mask == Mask(df, user_id, product_id)
         IN  IF mask # {} THEN df[Min(mask)].Feedback ELSE 0
    ELSE 0

\* new_vote = 0 if current_vote == 1 else 1   (and the same for -1)
new_vote(current_vote, direction) ==
    IF current_vote = direction THEN 0 ELSE direction

\* user_feedback.tail(5)
RecentVotes == 5

Tail_n(s, n) == IF Len(s) <= n THEN s ELSE SubSeq(s, Len(s) - n + 1, Len(s))

\* the "Your Recent Votes" list: feedback_df[MUDID == user_input].tail(5),
\* empty when there is no file
list_for_user(file, user_input) ==
    IF file.exists
    THEN LET df == read_csv(file)
         IN  Tail_n(Keep(df, {i \in 1..Len(df) : df[i].MUDID = user_input}, 1),
                    RecentVotes)
    ELSE <<>>

(***************************************************************************)
(* Spec: the ledger under one operation at a time.  last records the       *)
(* operation that produced the current file: its arguments, the file it    *)
(* started from, and what it returned.                                     *)
(***************************************************************************)
NoCall == [op |-> "none", u |-> PyStr("a"), p |-> PyInt("1"), v |-> 0,
           cur |-> 0, pre |-> Absent, view |-> <<>>]

IdleProcs  == <<>>
IdleQuery  == [text |-> <<>>, users |-> <<>>]
IdleAnswer == [pc |-> "idle"]
IdleRender == [pc |-> "idle"]

Init ==
    /\ feedback_csv \in {Absent, to_csv(<<>>)}
    /\ last = NoCall
    /\ procs = IdleProcs
    /\ query = IdleQuery
    /\ answer = IdleAnswer
    /\ render = IdleRender

Others == UNCHANGED <<procs, query, answer, render>>

\* votes user 'a' cast in an earlier session on products 3, 4 and 5: the
\* store SpecHistory starts from
EarlierVotes ==
    << feedback_entry(PyStr("a"), PyInt("3"), 1),
       feedback_entry(PyStr("a"), PyInt("4"), -1),
       feedback_entry(PyStr("a"), PyInt("5"), 1) >>

\* the rows of the pairs the operations act on, those beyond the earlier votes
ActiveRows(file) ==
    Cardinality({i \in 1..Len(file.rows) :
                    file.rows[i].Product_ID \notin {"3", "4", "5"}})

\* save_feedback(user_id, product_id, feedback) called directly
SetVote(u, p, v) ==
    /\ ActiveRows(save_feedback(feedback_csv, u, p, v)) <= MaxRows
    /\ feedback_csv' = save_feedback(feedback_csv, u, p, v)
    /\ last' = [op |-> "set", u |-> u, p |-> p, v |-> v, cur |-> 0,
                pre |-> feedback_csv, view |-> <<>>]
    /\ Others

\* a click on a thumb button of product p shown to user u: direction 1 is
\* thumbs-up, -1 thumbs-down
Thumb(u, p, direction) ==
    LET current_vote == get_user_vote(feedback_csv, u, p)
        nv           == new_vote(current_vote, direction)
    IN  /\ ActiveRows(save_feedback(feedback_csv, u, p, nv)) <= MaxRows
        /\ feedback_csv' = save_feedback(feedback_csv, u, p, nv)
        /\ last' = [op |-> IF direction = 1 THEN "up" ELSE "down",
                    u |-> u, p |-> p, v |-> nv, cur |-> current_vote,
                    pre |-> feedback_csv, view |-> <<>>]
        /\ Others

\* the feedback column of the page for user u
ListVotes(u) ==
    /\ last' = [op |-> "list", u |-> u, p |-> PyInt("1"), v |-> 0, cur |-> 0,
                pre |-> feedback_csv,
                view |-> list_for_user(feedback_csv, u)]
    /\ UNCHANGED feedback_csv
    /\ Others

Next ==
    \/ \E u \in Users, p \in Products, v \in Votes : SetVote(u, p, v)
    \/ \E u \in Users, p \in Products, d \in {1, -1} : Thumb(u, p, d)
    \/ \E u \in Users : ListVotes(u)

Spec == Init /\ [][Next]_vars

\* the same operations on the store of a returning user
InitHistory ==
    /\ feedback_csv = to_csv(EarlierVotes)
    /\ last = NoCall
    /\ procs = IdleProcs
    /\ query = IdleQuery
    /\ answer = IdleAnswer
    /\ render = IdleRender

SpecHistory == InitHistory /\ [][Next]_vars

(***************************************************************************)
(* Properties of the ledger (checked under Spec)                           *)
(***************************************************************************)
\* the stored key of a row and the stored key a call's arguments print as
Key(row) == <<row.MUDID, row.Product_ID>>
KeyOf(u, p) == <<u.s, p.s>>

IsWrite == last.op \in {"set", "up", "down"}

\* the element of the set of positions S with exactly k - 1 smaller ones
KthOf(S, k) == CHOOSE i \in S : Cardinality({j \in S : j < i}) = k - 1

\* s without the positions in drop, the others in their order
RowsExcept(s, drop) ==
    LET kept == (1..Len(s)) \ drop
    IN  [k \in 1..Cardinality(kept) |-> s[KthOf(kept, k)]]

\* the positions of the table read from file that the lookup of (u, p) selects
Selected(file, u, p) ==
    IF file.exists
    THEN {i \in 1..Len(file.rows) :
            /\ read_csv(file)[i].MUDID = u
            /\ read_csv(file)[i].Product_ID = p}
    ELSE {}

\* C1: the store holds at most one row for every (user, product) pair.
C1_AtMostOneRowPerPair ==
    \A i, j \in 1..Len(feedback_csv.rows) :
        i # j => Key(feedback_csv.rows[i]) # Key(feedback_csv.rows[j])

\* C2: get_vote(u,p) right after set_vote(u,p,v) returns v, and get_vote
\* returns 0 when the pair has no row or the store is absent.
C2_RoundTrip ==
    /\ last.op = "set" =>
          get_user_vote(feedback_csv, last.u, last.p) = last.v
    /\ \A u \in Users, p \in Products :
          (\A i \in 1..Len(feedback_csv.rows) :
               Key(feedback_csv.rows[i]) # KeyOf(u, p))
          => get_user_vote(feedback_csv, u, p) = 0

\* C3: toggle(u,p,d) makes the vote None when it was d, and d otherwise.
C3_ToggleSetsOrClears ==
    last.op \in {"up", "down"} =>
        LET d      == IF last.op = "up" THEN 1 ELSE -1
            before == get_user_vote(last.pre, last.u, last.p)
            after  == get_user_vote(feedback_csv, last.u, last.p)
        IN  after = IF before = d THEN 0 ELSE d

C9_Frame ==
    IsWrite =>
        LET k == KeyOf(last.u, last.p)
            others(rows) ==
                RowsExcept(rows, {i \in 1..Len(rows) : Key(rows[i]) = k})
        IN  others(feedback_csv.rows) = others(last.pre.rows)

\* a row of (u,p) was updated or removed while another pair's rows exist
C9_Witness ==
    /\ IsWrite
    /\ Selected(last.pre, last.u, last.p) # {}
    /\ feedback_csv # last.pre
    /\ \E i \in 1..Len(last.pre.rows) :
          Key(last.pre.rows[i]) # KeyOf(last.u, last.p)

(***************************************************************************)
(* SpecConc: two invocations of save_feedback (two script runs on one      *)
(* feedback.csv).  Each is two steps, as in the code: pd.read_csv at       *)
(* src/app.py:59, then the table built in memory from what was read and    *)
(* written whole by to_csv at src/app.py:84.  Nothing orders the steps of  *)
(* one call against the other's.                                           *)
(***************************************************************************)
ConcProducts == {PyInt("1"), PyInt("2")}

ConcEntries ==
    {feedback_entry(u, p, v) : u \in Users, p \in ConcProducts, v \in {1, -1}}

\* stores the single-writer program can have produced: at most one row per pair
ConcStores ==
    {Absent} \cup
    {to_csv(df) : df \in
        {d \in UNION {[1..n -> ConcEntries] : n \in 0..MaxConcRows} :
            \A i, j \in 1..Len(d) :
                i # j => <<d[i].MUDID, d[i].Product_ID>> #
                         <<d[j].MUDID, d[j].Product_ID>>}}

InitConc ==
    /\ feedback_csv \in ConcStores
    /\ procs \in [1..2 -> {[pc |-> "start", u |-> u, p |-> p, v |-> v,
                            snap |-> Absent, seen |-> 0, ord |-> 0] :
                           u \in Users, p \in ConcProducts, v \in Votes}]
    /\ last = NoCall
    /\ query = IdleQuery
    /\ answer = IdleAnswer
    /\ render = IdleRender

Written == Cardinality({i \in 1..2 : procs[i].pc = "done"})

\* feedback_df = pd.read_csv('feedback.csv'), or FileNotFoundError
ReadStore(i) ==
    /\ procs[i].pc = "start"
    /\ procs' = [procs EXCEPT ![i].pc = "read",
                              ![i].snap = feedback_csv,
                              ![i].seen = Written]
    /\ UNCHANGED <<feedback_csv, last, query, answer, render>>

\* the in-memory update and feedback_df.to_csv('feedback.csv', index=False)
WriteStore(i) ==
    /\ procs[i].pc = "read"
    /\ feedback_csv' =
          save_feedback(procs[i].snap, procs[i].u, procs[i].p, procs[i].v)
    /\ procs' = [procs EXCEPT ![i].pc = "done", ![i].ord = Written + 1]
    /\ UNCHANGED <<last, query, answer, render>>

NextConc == \E i \in 1..2 : ReadStore(i) \/ WriteStore(i)

SpecConc == InitConc /\ [][NextConc]_vars

BothDone == \A i \in 1..2 : procs[i].pc = "done"
FirstWriter == CHOOSE i \in 1..2 : procs[i].ord = 1
LastWriter  == CHOOSE i \in 1..2 : procs[i].ord = 2
\* both calls read the store before either wrote it
Raced == \A i \in 1..2 : procs[i].seen = 0
DifferentPairs ==
    KeyOf(procs[1].u, procs[1].p) # KeyOf(procs[2].u, procs[2].p)

\* the rows of the pair with stored key k, in order
RowsOf(rows, k) ==
    RowsExcept(rows, {i \in 1..Len(rows) : Key(rows[i]) # k})

\* what a completed save of vote v for the pair with key k must leave
Reflected(rows, k, v) ==
    IF v = 0 THEN RowsOf(rows, k) = <<>>
    ELSE RowsOf(rows, k) = <<[MUDID |-> k[1], Product_ID |-> k[2],
                              Feedback |-> v]>>

\* C10: when both calls read before either writes, the store ends as the
\* last writer's table built from the store both read, and the first
\* writer's pair is as it was before (its new row is absent: the vote is
\* lost); when the second call reads after the first wrote, both votes are
\* in the store.
C10_LostUpdate ==
    (BothDone /\ DifferentPairs) =>
        LET f  == procs[FirstWriter]
            l  == procs[LastWriter]
            kf == KeyOf(f.u, f.p)
            kl == KeyOf(l.u, l.p)
        IN  IF Raced
            THEN /\ feedback_csv = save_feedback(f.snap, l.u, l.p, l.v)
                 /\ Reflected(feedback_csv.rows, kl, l.v)
                 /\ RowsOf(feedback_csv.rows, kf) = RowsOf(f.snap.rows, kf)
                 /\ (RowsOf(f.snap.rows, kf) = <<>> /\ f.v # 0)
                       => RowsOf(feedback_csv.rows, kf) = <<>>
            ELSE /\ Reflected(feedback_csv.rows, kf, f.v)
                 /\ Reflected(feedback_csv.rows, kl, l.v)

\* both calls read first, both wrote, and the first writer's new vote is gone
C10_Witness ==
    /\ BothDone /\ DifferentPairs /\ Raced
    /\ procs[FirstWriter].v # 0
    /\ RowsOf(procs[FirstWriter].snap.rows,
              KeyOf(procs[FirstWriter].u, procs[FirstWriter].p)) = <<>>
    /\ RowsOf(feedback_csv.rows,
              KeyOf(procs[FirstWriter].u, procs[FirstWriter].p)) = <<>>
    /\ procs[LastWriter].v # 0

(***************************************************************************)
(* SpecResolve: extract_user_from_text.  A string is a sequence of         *)
(* one-character strings.                                                  *)
(***************************************************************************)
None == [some |-> FALSE]
Some(x) == [some |-> TRUE, val |-> x]

Chars == {"g", "G", "e", "t", " "}

Str(n) == UNION {[1..k -> Chars] : k \in 0..n}

\* str.lower(), on the characters of the model
LowerChar(c) == IF c = "G" THEN "g" ELSE c
lower(s) == [i \in 1..Len(s) |-> LowerChar(s[i])]

RECURSIVE lstrip(_)
lstrip(s) == IF s # <<>> /\ Head(s) = " " THEN lstrip(Tail(s)) ELSE s

RECURSIVE rstrip(_)
rstrip(s) ==
    IF s # <<>> /\ s[Len(s)] = " " THEN rstrip(SubSeq(s, 1, Len(s) - 1)) ELSE s

\* str.strip()
strip(s) == rstrip(lstrip(s))

\* needle in hay
Contains(hay, needle) ==
    \E i \in 0..(Len(hay) - Len(needle)) :
        SubSeq(hay, i + 1, i + Len(needle)) = needle

\* the user ids of the loaded data: df['MUDID'].unique().tolist()
IdPool ==
    { <<"e", "g", "e", "t">>,
      <<"G", "e", "g", "e", "t">>,
      <<"t", "e">>,
      <<"t", "e", "e">> }

Catalogs ==
    {c \in UNION {[1..n -> IdPool] : n \in 0..MaxCatalog} :
        \A i, j \in 1..Len(c) : i # j => c[i] # c[j]}

patterns ==
    { <<"r", "e", "c", "o", "m", "m", "e", "n", "d">>,
      <<"s", "u", "g", "g", "e", "s", "t", "i", "o", "n">>,
      <<"s", "h", "o", "w">>,
      <<"g", "e", "t">>,
      <<"f", "i", "n", "d">>,
      <<"w", "h", "a", "t">>,
      <<"g", "i", "v", "e", " ", "m", "e">> }

\* the index of the first user whose id, lowered, is in the text; 0 if none
FirstExact(text_lower, available_users) ==
    LET hit == {i \in 1..Len(available_users) :
                   Contains(text_lower, lower(available_users[i]))}
    IN  IF hit = {} THEN 0 ELSE Min(hit)

\* some user_str[i:i+4], i in range(len(user_str) - 3), is in the text
PartialMatch(text_lower, user) ==
    LET user_str == lower(user)
    IN  /\ Len(user_str) >= 4
        /\ \E i \in 0..(Len(user_str) - 4) :
              Contains(text_lower, SubSeq(user_str, i + 1, i + 4))

\* the index of the first user with a partial match; 0 if none
FirstPartial(text_lower, available_users) ==
    LET hit == {i \in 1..Len(available_users) :
                   PartialMatch(text_lower, available_users[i])}
    IN  IF hit = {} THEN 0 ELSE Min(hit)

Message(kind, id, sample, more) ==
    [kind |-> kind, id |-> id, sample |-> sample, more |-> more]

\* available_users[:4], one id too many
available_sample_four(available_users) ==
    SubSeq(available_users, 1,
           IF Len(available_users) < 4 THEN Len(available_users) ELSE 4)

\* available_users[:3], the ids joined into the not-found message
available_sample(available_users) ==
    SubSeq(available_users, 1,
           IF Len(available_users) < 3 THEN Len(available_users) ELSE 3)

\* extract_user_from_text with the partial loop run before the exact one
extract_partial_first(text_input, available_users) ==
    IF strip(text_input) = <<>>
    THEN [user |-> None, msg |-> Message("none", <<>>, <<>>, FALSE)]
    ELSE
    LET text_lower == strip(lower(text_input))
        e == FirstExact(text_lower, available_users)
        q == FirstPartial(text_lower, available_users)
    IN  IF q # 0
        THEN [user |-> Some(available_users[q]),
              msg  |-> Message("partial", available_users[q], <<>>, FALSE)]
        ELSE IF e # 0
        THEN [user |-> Some(available_users[e]),
              msg  |-> Message("found", available_users[e], <<>>, FALSE)]
        ELSE IF \E pattern \in patterns : Contains(text_lower, pattern)
        THEN [user |-> None, msg |-> Message("need_id", <<>>, <<>>, FALSE)]
        ELSE [user |-> None,
              msg  |-> Message("not_found", <<>>,
                               available_sample(available_users),
                               Len(available_users) > 3)]

\* extract_user_from_text(text_input, available_users): (user, message)
extract_user_from_text(text_input, available_users) ==
    IF strip(text_input) = <<>>
    THEN [user |-> None, msg |-> Message("none", <<>>, <<>>, FALSE)]
    ELSE
    LET text_lower == strip(lower(text_input))
        e == FirstExact(text_lower, available_users)
        q == FirstPartial(text_lower, available_users)
    IN  IF e # 0
        THEN [user |-> Some(available_users[e]),
              msg  |-> Message("found", available_users[e], <<>>, FALSE)]
        ELSE IF q # 0
        THEN [user |-> Some(available_users[q]),
              msg  |-> Message("partial", available_users[q], <<>>, FALSE)]
        ELSE IF \E pattern \in patterns : Contains(text_lower, pattern)
        THEN [user |-> None, msg |-> Message("need_id", <<>>, <<>>, FALSE)]
        ELSE [user |-> None,
              msg  |-> Message("not_found", <<>>,
                               available_sample(available_users),
                               Len(available_users) > 3)]

InitResolve ==
    /\ query \in [text : Str(MaxText), users : Catalogs]
    /\ answer = IdleAnswer
    /\ feedback_csv = Absent
    /\ last = NoCall
    /\ procs = IdleProcs
    /\ render = IdleRender

\* one call of extract_user_from_text on the query
Resolve ==
    /\ answer.pc = "idle"
    /\ answer' = [pc |-> "done"] @@
                 extract_user_from_text(query.text, query.users)
    /\ UNCHANGED <<query, feedback_csv, last, procs, render>>

NextResolve == Resolve

SpecResolve == InitResolve /\ [][NextResolve]_vars

Resolved == answer.pc = "done"
TextLower == strip(lower(query.text))
\* catalog positions whose whole id occurs in the text, and those of
\* length >= 4 with a 4-character window in the text
InFull == {i \in 1..Len(query.users) :
              Contains(TextLower, lower(query.users[i]))}
ByWindow ==
    {i \in 1..Len(query.users) :
        /\ Len(query.users[i]) >= 4
        /\ \E k \in 1..(Len(query.users[i]) - 3) :
              Contains(TextLower, SubSeq(lower(query.users[i]), k, k + 3))}
HasIntent == \E pattern \in patterns : Contains(TextLower, pattern)
NonBlank == strip(query.text) # <<>>

\* C7: an id occurring in full wins, the first in catalog order, even
\* after an id with a matching window; else the first id of length >= 4
\* with a matching window; intent keywords count only when neither matched.
C7_Precedence ==
    (Resolved /\ NonBlank) =>
        /\ InFull # {} => answer.user = Some(query.users[Min(InFull)])
        /\ (InFull = {} /\ ByWindow # {}) =>
              answer.user = Some(query.users[Min(ByWindow)])
        /\ (InFull = {} /\ ByWindow = {}) => answer.user = None
        /\ (HasIntent /\ InFull \cup ByWindow # {}) => answer.user.some

\* a later id matched in full, an earlier one by a window only, and the
\* text holds an intent keyword
C7_Witness ==
    /\ Resolved /\ NonBlank
    /\ HasIntent
    /\ InFull # {}
    /\ \E i \in ByWindow : i < Min(InFull)
    /\ answer.user = Some(query.users[Min(InFull)])

\* C8 (as claimed): every unresolved result, Ambiguous or NotFound, carries
\* the first up to 3 catalog ids as samples.
C8_SampleInEveryHint ==
    (Resolved /\ ~answer.user.some) =>
        /\ answer.msg.sample =
              SubSeq(query.users, 1,
                     IF Len(query.users) < 3 THEN Len(query.users) ELSE 3)
        /\ Len(answer.msg.sample) <= 3

\* C8 (amended): with no id matched, a text without intent keyword gets the
\* not-found hint listing the first min(3, n) catalog ids (and "..." when
\* n > 3); a text with an intent keyword gets the prompt for a user id,
\* which lists no ids; a blank text gets no message at all.  Never more
\* than 3 ids are listed.
C8_SampleOnlyWhenNotFound ==
    (Resolved /\ ~answer.user.some) =>
        /\ Len(answer.msg.sample) <= 3
        /\ IF ~NonBlank
           THEN answer.msg.kind = "none" /\ answer.msg.sample = <<>>
           ELSE IF HasIntent
           THEN answer.msg.kind = "need_id" /\ answer.msg.sample = <<>>
           ELSE /\ answer.msg.kind = "not_found"
                /\ Len(answer.msg.sample) =
                      (IF Len(query.users) < 3 THEN Len(query.users) ELSE 3)
                /\ \A i \in 1..Len(answer.msg.sample) :
                      answer.msg.sample[i] = query.users[i]
                /\ answer.msg.more = (Len(query.users) > 3)

\* not found in a catalog of more than 3 ids: 3 listed, then "..."
C8_Witness ==
    /\ Resolved
    /\ answer.msg.kind = "not_found"
    /\ Len(query.users) > 3
    /\ Len(answer.msg.sample) = 3
    /\ answer.msg.more

(***************************************************************************)
(* SpecRender: the recommendation table of main() for one user row.  Each  *)
(* of the four fields is a string that literal_eval decodes or not; the    *)
(* scores are in hundredths.                                               *)
(***************************************************************************)
Malformed == [ok |-> FALSE, val |-> <<>>]
Literal(list) == [ok |-> TRUE, val |-> list]

\* the field strings of the model: a malformed one, or a list of 0..MaxRecs
\* elements taken from the start of vals
Fields(vals) ==
    {Malformed} \cup {Literal([i \in 1..n |-> vals[i]]) : n \in 0..MaxRecs}

ProductIds  == [i \in 1..(MaxRecs + 1) |-> i]
FinalScores == [i \in 1..(MaxRecs + 1) |-> IF i = 1 THEN 90
                                           ELSE IF i = 2 THEN 50 ELSE 11]
RfScores    == [i \in 1..(MaxRecs + 1) |-> 35]
CfScores    == [i \in 1..(MaxRecs + 1) |-> IF i = 1 THEN 100 ELSE 0]

\* parse_list_string: ast.literal_eval, [] on any failure
parse_list_string(list_str) == IF list_str.ok THEN list_str.val ELSE <<>>

\* the marker of the final score: >= 0.7 green, >= 0.4 yellow, else red
score_color(score) ==
    IF score >= 70 THEN "green" ELSE IF score >= 40 THEN "yellow" ELSE "red"

InitRender ==
    /\ render \in [pc : {"idle"},
                   Recommended_Product : Fields(ProductIds),
                   Final_Score : Fields(FinalScores),
                   RF_Score : Fields(RfScores),
                   CF_Score : Fields(CfScores)]
    /\ feedback_csv = Absent
    /\ last = NoCall
    /\ procs = IdleProcs
    /\ query = IdleQuery
    /\ answer = IdleAnswer

RenderFrame == UNCHANGED <<feedback_csv, last, procs, query, answer>>

\* src/app.py:267-274: decode the four fields, announce len(products)
StartRender ==
    /\ render.pc = "idle"
    /\ render' =
          [pc |-> "loop", i |-> 0, shown |-> <<>>,
           recommended_products |-> parse_list_string(render.Recommended_Product),
           final_scores |-> parse_list_string(render.Final_Score),
           rf_scores |-> parse_list_string(render.RF_Score),
           cf_scores |-> parse_list_string(render.CF_Score),
           total_products |-> Len(parse_list_string(render.Recommended_Product))]
    /\ RenderFrame

\* how many of final_scores[i], rf_scores[i], cf_scores[i] (0-based i) are
\* read, in that order, before one raises IndexError: 3 when none does
ScoresRead(r) ==
    IF r.i >= Len(r.final_scores) THEN 0
    ELSE IF r.i >= Len(r.rf_scores) THEN 1
    ELSE IF r.i >= Len(r.cf_scores) THEN 2
    ELSE 3

\* one pass of: for i, product_id in enumerate(recommended_products)
RenderRow ==
    /\ render.pc = "loop"
    /\ render.i < Len(render.recommended_products)
    /\ ScoresRead(render) = 3
    /\ render' =
          [render EXCEPT
             !.shown = Append(@,
                [rank |-> render.i + 1,
                 product_id |-> render.recommended_products[render.i + 1],
                 color |-> score_color(render.final_scores[render.i + 1]),
                 scores |-> 3]),
             !.i = @ + 1]
    /\ RenderFrame

\* a pass in which a score list is too short: the rank and the product are
\* already on the page when the index raises IndexError, which ends the run
RenderRowIndexError ==
    /\ render.pc = "loop"
    /\ render.i < Len(render.recommended_products)
    /\ ScoresRead(render) < 3
    /\ render' =
          [render EXCEPT
             !.shown = Append(@,
                [rank |-> render.i + 1,
                 product_id |-> render.recommended_products[render.i + 1],
                 color |-> IF ScoresRead(render) = 0 THEN "none"
                           ELSE score_color(render.final_scores[render.i + 1]),
                 scores |-> ScoresRead(render)]),
             !.pc = "IndexError"]
    /\ RenderFrame

\* the loop ran out of products
EndRender ==
    /\ render.pc = "loop"
    /\ render.i = Len(render.recommended_products)
    /\ render' = [render EXCEPT !.pc = "done"]
    /\ RenderFrame

NextRender ==
    \/ StartRender
    \/ RenderRow
    \/ RenderRowIndexError
    \/ EndRender

SpecRender == InitRender /\ [][NextRender]_vars

\* the least of the four decoded lengths
EffectiveLength ==
    Min({Len(render.recommended_products), Len(render.final_scores),
         Len(render.rf_scores), Len(render.cf_scores)})

\* C6: with lists of different lengths only the positions below the least
\* of the four lengths are indexed and shown, and no score list is indexed
\* out of range.
C6_ClampToShortest ==
    render.pc # "idle" =>
        /\ render.pc # "IndexError"
        /\ \A k \in 1..Len(render.shown) : render.shown[k].rank <= EffectiveLength
        /\ render.pc = "done" => Len(render.shown) = EffectiveLength
====
